---- MODULE Spec2Model ----
(***************************************************************************)
(* Lexer (pattern-ordered scanner) and Parser (recursive descent with      *)
(* identifier validation and panic-mode recovery) of the Python-subset     *)
(* compiler front end, and the controller pipeline tokenize -> parse.      *)
(*                                                                         *)
(* Text is a sequence of one-character strings.  Indices of the code are   *)
(* 0-based (position, currentTokenIndex); TLA+ sequences are 1-based, so   *)
(* input[position] of the code is input[position + 1] here.                *)
(***************************************************************************)
EXTENDS Integers, Sequences, FiniteSets, TLC

(***************************************************************************)
(* Bounds of the model                                                     *)
(***************************************************************************)
MaxLen == 4
MaxLines == 2
MaxTokens == 4
MaxScans == 2

(***************************************************************************)
(* Character classes used by the regular expressions                       *)
(***************************************************************************)
Digits == {"0", "1", "2", "3", "4", "5", "6", "7", "8", "9"}
LowerLetters ==
    {"a", "b", "c", "d", "e", "f", "g", "h", "i", "j", "k", "l", "m",
     "n", "o", "p", "q", "r", "s", "t", "u", "v", "w", "x", "y", "z"}
UpperLetters ==
    {"A", "B", "C", "D", "E", "F", "G", "H", "I", "J", "K", "L", "M",
     "N", "O", "P", "Q", "R", "S", "T", "U", "V", "W", "X", "Y", "Z"}
IdentStart == LowerLetters \cup UpperLetters \cup {"_"}
IdentPart == IdentStart \cup Digits
HexDigits == Digits \cup {"a", "b", "c", "d", "e", "f", "A", "B", "C", "D", "E", "F"}
\* what the regex atom "." refuses (U+2028 and U+2029 are not in any input here)
LineTerminators == {"\n", "\r"}

\* s[i] of JavaScript with a 1-based index: out of range is the empty text
At(s, i) == IF i \in 1..Len(s) THEN s[i] ELSE ""

\* String.prototype.substring(position) with a 0-based position
substring(s, position) == SubSeq(s, position + 1, Len(s))

StartsWithAt(s, i, lit) ==
    /\ i + Len(lit) - 1 <= Len(s)
    /\ SubSeq(s, i, i + Len(lit) - 1) = lit

startsWith(s, lit) == StartsWithAt(s, 1, lit)
endsWith(s, lit) == Len(lit) <= Len(s) /\ SubSeq(s, Len(s) - Len(lit) + 1, Len(s)) = lit

\* length of the longest run of characters of C in s from index i (greedy X+ / X*)
RECURSIVE Run(_, _, _)
Run(s, i, C) == IF i <= Len(s) /\ s[i] \in C THEN 1 + Run(s, i + 1, C) ELSE 0

\* the same for a negated class
RECURSIVE RunNot(_, _, _)
RunNot(s, i, C) == IF i <= Len(s) /\ s[i] \notin C THEN 1 + RunNot(s, i + 1, C) ELSE 0

\* (a|b|c) over literal alternatives: the first alternative, in listed
\* order, that is a prefix of s; the length matched, 0 for no match
RECURSIVE FirstAlt(_, _, _)
FirstAlt(s, alts, k) ==
    IF k > Len(alts) THEN 0
    ELSE IF startsWith(s, alts[k]) THEN Len(alts[k])
    ELSE FirstAlt(s, alts, k + 1)

\* """[^]*?""" : lazy body, so the match ends at the first closing triple
RECURSIVE TripleEnd(_, _, _)
TripleEnd(s, i, q) ==
    IF i + 2 > Len(s) THEN 0
    ELSE IF StartsWithAt(s, i, <<q, q, q>>) THEN i + 2
    ELSE TripleEnd(s, i + 1, q)

reTriple(s, q) == IF startsWith(s, <<q, q, q>>) THEN TripleEnd(s, 4, q) ELSE 0

\* q([^q\\]|\\.)*q : index of the closing quote, 0 for no match
RECURSIVE QuotedEnd(_, _, _)
QuotedEnd(s, i, q) ==
    IF i > Len(s) THEN 0
    ELSE IF s[i] = q THEN i
    ELSE IF s[i] = "\\"
         THEN IF i + 1 <= Len(s) /\ s[i + 1] \notin LineTerminators
              THEN QuotedEnd(s, i + 2, q)
              ELSE 0
    ELSE QuotedEnd(s, i + 1, q)

reQuoted(s, q) == IF At(s, 1) = q THEN QuotedEnd(s, 2, q) ELSE 0

\* ([eE][-+]?\d+) starting at index i: the length matched, 0 for no match
ExponentLen(s, i) ==
    IF At(s, i) \in {"e", "E"}
    THEN LET sign == IF At(s, i + 1) \in {"-", "+"} THEN 1 ELSE 0
             d == Run(s, i + 1 + sign, Digits)
         IN  IF d > 0 THEN 1 + sign + d ELSE 0
    ELSE 0

\* \d+\.\d+([eE][-+]?\d+)?
reFloatPoint(s) ==
    LET d == Run(s, 1, Digits)
        f == Run(s, d + 2, Digits)
    IN  IF d > 0 /\ At(s, d + 1) = "." /\ f > 0
        THEN d + 1 + f + ExponentLen(s, d + f + 2)
        ELSE 0

\* \d+[eE][-+]?\d+
reFloatExp(s) ==
    LET d == Run(s, 1, Digits)
        e == ExponentLen(s, d + 1)
    IN  IF d > 0 /\ e > 0 THEN d + e ELSE 0

\* 0[bB][01]+ and its octal and hexadecimal siblings
reRadix(s, marks, digs) ==
    LET d == Run(s, 3, digs)
    IN  IF At(s, 1) = "0" /\ At(s, 2) \in marks /\ d > 0 THEN 2 + d ELSE 0

\* [a-zA-Z_][a-zA-Z0-9_]*
reIdentifier(s) == IF At(s, 1) \in IdentStart THEN 1 + Run(s, 2, IdentPart) ELSE 0

CompoundAssignAlts ==
    << <<"+", "=">>, <<"-", "=">>, <<"*", "=">>, <<"%", "=">>, <<"&", "=">>,
       <<"|", "=">>, <<"^", "=">>, <<"<", "<", "=">>, <<">", ">", "=">>,
       <<"*", "*", "=">>, <<"/", "/", "=">> >>
ArithmeticAlts ==
    << <<"+">>, <<"-">>, <<"*">>, <<"%">>, <<"*", "*">>, <<"/", "/">> >>
ComparisonAlts ==
    << <<"=", "=">>, <<"!", "=">>, <<"<", "=">>, <<">", "=">>, <<"<">>, <<">">> >>
LogicalAlts == << <<"a", "n", "d">>, <<"o", "r">>, <<"n", "o", "t">> >>
BitwiseAlts == << <<"&">>, <<"|">>, <<"^">>, <<"~">>, <<"<", "<">>, <<">", ">">> >>

(***************************************************************************)
(* Lexer.PATTERNS: the token type of each rule, in priority order, and     *)
(* the length its regex matches at the start of s (0: no match)            *)
(***************************************************************************)
PATTERNS ==
    << "UNKNOWN", "NEWLINE", "COMMENT", "STRING", "STRING", "STRING", "STRING",
       "FLOAT", "FLOAT", "INTEGER", "INTEGER", "INTEGER", "INTEGER",
       "ASSIGNMENT_OPERATOR", "ARITHMETIC_OPERATOR", "COMPARISON_OPERATOR",
       "LOGICAL_OPERATOR", "IDENTITY_OPERATOR", "MEMBERSHIP_OPERATOR",
       "BITWISE_OPERATOR", "ASSIGNMENT_OPERATOR", "ARITHMETIC_OPERATOR", "ARROW",
       "LPAREN", "RPAREN", "LBRACKET", "RBRACKET", "LBRACE", "RBRACE",
       "COMMA", "COLON", "SEMICOLON", "DOT", "IDENTIFIER" >>

regexMatch(k, s) ==
    CASE k = 1 -> Run(s, 1, {" ", "\t"})
      [] k = 2 -> IF At(s, 1) = "\n" THEN 1 ELSE 0
      [] k = 3 -> IF At(s, 1) = "#" THEN 1 + RunNot(s, 2, LineTerminators) ELSE 0
      [] k = 4 -> reTriple(s, "\"")
      [] k = 5 -> reTriple(s, "'")
      [] k = 6 -> reQuoted(s, "'")
      [] k = 7 -> reQuoted(s, "\"")
      [] k = 8 -> reFloatPoint(s)
      [] k = 9 -> reFloatExp(s)
      [] k = 10 -> reRadix(s, {"b", "B"}, {"0", "1"})
      [] k = 11 -> reRadix(s, {"o", "O"}, {"0", "1", "2", "3", "4", "5", "6", "7"})
      [] k = 12 -> reRadix(s, {"x", "X"}, HexDigits)
      [] k = 13 -> Run(s, 1, Digits)
      [] k = 14 -> FirstAlt(s, CompoundAssignAlts, 1)
      [] k = 15 -> FirstAlt(s, ArithmeticAlts, 1)
      [] k = 16 -> FirstAlt(s, ComparisonAlts, 1)
      [] k = 17 -> FirstAlt(s, LogicalAlts, 1)
      [] k = 18 -> FirstAlt(s, << <<"i", "s">> >>, 1)
      [] k = 19 -> FirstAlt(s, << <<"i", "n">> >>, 1)
      [] k = 20 -> FirstAlt(s, BitwiseAlts, 1)
      [] k = 21 -> IF At(s, 1) = "=" THEN 1 ELSE 0
      [] k = 22 -> IF At(s, 1) = "/" THEN 1 ELSE 0
      [] k = 23 -> FirstAlt(s, << <<"-", ">">> >>, 1)
      [] k = 24 -> IF At(s, 1) = "(" THEN 1 ELSE 0
      [] k = 25 -> IF At(s, 1) = ")" THEN 1 ELSE 0
      [] k = 26 -> IF At(s, 1) = "[" THEN 1 ELSE 0
      [] k = 27 -> IF At(s, 1) = "]" THEN 1 ELSE 0
      [] k = 28 -> IF At(s, 1) = "{" THEN 1 ELSE 0
      [] k = 29 -> IF At(s, 1) = "}" THEN 1 ELSE 0
      [] k = 30 -> IF At(s, 1) = "," THEN 1 ELSE 0
      [] k = 31 -> IF At(s, 1) = ":" THEN 1 ELSE 0
      [] k = 32 -> IF At(s, 1) = ";" THEN 1 ELSE 0
      [] k = 33 -> IF At(s, 1) = "." THEN 1 ELSE 0
      [] OTHER -> reIdentifier(s)

\* the for loop of getNextToken: the first rule with a non-empty match, 0 for none
RECURSIVE FirstPattern(_, _)
FirstPattern(s, k) ==
    IF k > Len(PATTERNS) THEN 0
    ELSE IF regexMatch(k, s) > 0 THEN k
    ELSE FirstPattern(s, k + 1)

KEYWORDS == {
    <<"F","a","l","s","e">>, <<"N","o","n","e">>, <<"T","r","u","e">>,
    <<"a","n","d">>, <<"a","s">>, <<"a","s","s","e","r","t">>,
    <<"a","s","y","n","c">>, <<"a","w","a","i","t">>, <<"b","r","e","a","k">>,
    <<"c","l","a","s","s">>, <<"c","o","n","t","i","n","u","e">>, <<"d","e","f">>,
    <<"d","e","l">>, <<"e","l","i","f">>, <<"e","l","s","e">>,
    <<"e","x","c","e","p","t">>, <<"f","i","n","a","l","l","y">>, <<"f","o","r">>,
    <<"f","r","o","m">>, <<"g","l","o","b","a","l">>, <<"i","f">>,
    <<"i","m","p","o","r","t">>, <<"i","n">>, <<"i","s">>,
    <<"l","a","m","b","d","a">>, <<"n","o","n","l","o","c","a","l">>, <<"n","o","t">>,
    <<"o","r">>, <<"p","a","s","s">>, <<"r","a","i","s","e">>,
    <<"r","e","t","u","r","n">>, <<"t","r","y">>, <<"w","h","i","l","e">>,
    <<"w","i","t","h">>, <<"y","i","e","l","d">> }
BOOLEANS == { <<"T","r","u","e">>, <<"F","a","l","s","e">> }
NONE == { <<"N","o","n","e">> }

(***************************************************************************)
(* Tokens.  value is the source text; error is the optional lexical detail *)
(* (message and suggestion, texts given as sequences of their parts), with *)
(* NoError for a token that has none.                                      *)
(***************************************************************************)
NoError == [message |-> <<>>, suggestion |-> <<>>]

Token(type, value, line, column) ==
    [type |-> type, value |-> value, line |-> line, column |-> column, error |-> NoError]

AllowedEscapes == {"\"", "\\", "'", "a", "b", "f", "n", "r", "t", "v", "0"}

\* value.match(/\\([^"\\'abfnrtv0])/): index of the first backslash that is
\* followed by a character outside the allowed set, 0 for no match
RECURSIVE invalidEscape(_, _)
invalidEscape(value, i) ==
    IF i + 1 > Len(value) THEN 0
    ELSE IF value[i] = "\\" /\ value[i + 1] \notin AllowedEscapes THEN i
    ELSE invalidEscape(value, i + 1)

validateString(value) ==
    IF \/ (startsWith(value, <<"\"">>) /\ ~endsWith(value, <<"\"">>))
       \/ (startsWith(value, <<"'">>) /\ ~endsWith(value, <<"'">>))
    THEN [message |-> <<"Cadena no cerrada correctamente">>,
          suggestion |-> <<"Asegurate de cerrar la cadena con la misma comilla que usaste para abrirla">>]
    ELSE IF /\ ~startsWith(value, <<"\"", "\"", "\"">>)
            /\ ~startsWith(value, <<"'", "'", "'">>)
            /\ invalidEscape(value, 1) > 0
    THEN [message |-> <<"Secuencia de escape invalida: \\", value[invalidEscape(value, 1) + 1]>>,
          suggestion |-> <<"Secuencias de escape validas">>]
    ELSE NoError

(***************************************************************************)
(* The Lexer object: input, position, line, column, currentChar, errors    *)
(***************************************************************************)
NewLexer(input) ==
    [input |-> input, position |-> 0, line |-> 1, column |-> 1,
     currentChar |-> IF Len(input) > 0 THEN input[1] ELSE "",
     errors |-> <<>>]

RECURSIVE advance(_, _)
advance(lx, steps) ==
    IF steps = 0 THEN lx
    ELSE LET moved == IF lx.currentChar = "\n"
                      THEN [lx EXCEPT !.line = @ + 1, !.column = 1]
                      ELSE [lx EXCEPT !.column = @ + 1]
             p == lx.position + 1
         IN  advance([moved EXCEPT !.position = p,
                                   !.currentChar = IF p < Len(lx.input)
                                                   THEN lx.input[p + 1] ELSE ""],
                     steps - 1)

\* an outcome of getNextToken: the lexer after the call, the token returned,
\* and the advance(steps) calls made, each with the position it started at
Scanned(lx, token, advances) == [lexer |-> lx, token |-> token, advances |-> advances]

createErrorToken(lx, value, column, message, suggestion) ==
    LET errorToken == [type |-> "ERROR", value |-> value, line |-> lx.line,
                       column |-> column,
                       error |-> [message |-> message,
                                  suggestion |-> IF suggestion = <<>>
                                                 THEN <<"Revisa la sintaxis del codigo">>
                                                 ELSE suggestion]]
    IN  [lexer |-> [lx EXCEPT !.errors = Append(@, errorToken)], token |-> errorToken]

RECURSIVE getNextToken(_)
getNextToken(lx) ==
    LET s == substring(lx.input, lx.position)
        k == FirstPattern(s, 1)
    IN  IF k > 0
        THEN LET value == SubSeq(s, 1, regexMatch(k, s))
                 startColumn == lx.column
                 stringError == IF PATTERNS[k] = "STRING"
                                THEN validateString(value) ELSE NoError
                 after == advance(lx, Len(value))
                 here == <<[position |-> lx.position, steps |-> Len(value)]>>
             IN  IF stringError # NoError
                 THEN LET e == createErrorToken(after, value, startColumn,
                                                stringError.message, stringError.suggestion)
                      IN  Scanned(e.lexer, e.token, here)
                 ELSE IF PATTERNS[k] = "UNKNOWN"
                 THEN LET next == getNextToken(after)
                      IN  Scanned(next.lexer, next.token, here \o next.advances)
                 ELSE Scanned(after, Token(PATTERNS[k], value, after.line, startColumn), here)
        ELSE LET unknownChar == IF lx.currentChar = "" THEN <<>> ELSE <<lx.currentChar>>
                 startColumn == lx.column
                 after == advance(lx, 1)
                 e == createErrorToken(after, unknownChar, startColumn,
                                       <<"Caracter no reconocido: '">> \o unknownChar \o <<"'">>,
                                       <<"Caracteres validos: letras, numeros, operadores y simbolos">>)
             IN  Scanned(e.lexer, e.token, <<[position |-> lx.position, steps |-> 1]>>)

\* the re-classification of a matched identifier in tokenize
finalType(token) ==
    IF token.type = "IDENTIFIER"
    THEN IF token.value \in BOOLEANS THEN "BOOLEAN"
         ELSE IF token.value \in NONE THEN "NONE"
         ELSE IF token.value \in KEYWORDS THEN "KEYWORD"
         ELSE "IDENTIFIER"
    ELSE token.type

\* one iteration of the while loop of tokenize
tokenizeIteration(lx, toks) ==
    LET r == getNextToken(lx)
    IN  [lexer |-> r.lexer,
         tokens |-> IF r.token.type # "UNKNOWN"
                    THEN Append(toks, [r.token EXCEPT !.type = finalType(r.token)])
                    ELSE toks,
         advances |-> r.advances]

\* the rest of tokenize once the loop has ended
tokenizeResult(lx, toks) ==
    [tokens |-> Append(toks, Token("EOF", <<"E", "O", "F">>, lx.line, lx.column)),
     errors |-> lx.errors]

\* tokenize as a whole, on a lexer in any state
RECURSIVE tokenizeLoop(_, _)
tokenizeLoop(lx, toks) ==
    IF lx.position < Len(lx.input)
    THEN LET it == tokenizeIteration(lx, toks) IN tokenizeLoop(it.lexer, it.tokens)
    ELSE tokenizeResult(lx, toks)

tokenize(lx) == tokenizeLoop([lx EXCEPT !.errors = <<>>], <<>>)

(***************************************************************************)
(* The Parser object: tokens, currentTokenIndex, errors.  AST nodes carry  *)
(* type, value, children and the token they come from; a leaf has no       *)
(* children and NullNode stands for null.                                  *)
(***************************************************************************)
EOFDefault == [type |-> "EOF", value |-> <<>>, line |-> -1, column |-> -1, error |-> NoError]

NullNode == [type |-> "null", value |-> <<>>, children |-> <<>>, token |-> EOFDefault]

ASTNode(type, value, children, token) ==
    [type |-> type, value |-> value, children |-> children, token |-> token]

\* a constructor that also filters the ERROR tokens out
NewParserDroppingErrors(toks) ==
    [tokens |-> SelectSeq(toks, LAMBDA t : t.type \notin {"UNKNOWN", "COMMENT", "ERROR"}),
     currentTokenIndex |-> 0,
     errors |-> <<>>]

\* new Parser(tokens)
NewParser(toks) ==
    [tokens |-> SelectSeq(toks, LAMBDA t : t.type # "UNKNOWN" /\ t.type # "COMMENT"),
     currentTokenIndex |-> 0,
     errors |-> <<>>]

peek(ps) ==
    IF ps.currentTokenIndex + 1 \in 1..Len(ps.tokens)
    THEN ps.tokens[ps.currentTokenIndex + 1] ELSE EOFDefault

previous(ps) ==
    IF ps.currentTokenIndex \in 1..Len(ps.tokens)
    THEN ps.tokens[ps.currentTokenIndex] ELSE EOFDefault

isAtEnd(ps) == peek(ps).type = "EOF"

check(ps, type) == ~isAtEnd(ps) /\ peek(ps).type = type

checkNext(ps, type) ==
    /\ ~isAtEnd(ps)
    /\ ps.currentTokenIndex + 1 < Len(ps.tokens)
    /\ ps.tokens[ps.currentTokenIndex + 2].type = type

\* Parser.advance
parserAdvance(ps) ==
    IF ~isAtEnd(ps) THEN [ps EXCEPT !.currentTokenIndex = @ + 1] ELSE ps

reportError(ps, token, message, suggestion) ==
    [ps EXCEPT !.errors = Append(@, [message |-> message, line |-> token.line,
                                     column |-> token.column, token |-> token,
                                     suggestion |-> suggestion])]

\* error() that throws without recording the diagnostic
errorNotRecorded(ps, token, message, suggestion) == ps

\* Parser.error: records the diagnostic; the caller throws what it returns
error(ps, token, message, suggestion) ==
    reportError(ps, token, message,
                IF suggestion = <<>> THEN <<"Revise la sintaxis de Python">> ELSE suggestion)

\* match(type) for one type: the parser after it (moved iff the type matched)
match(ps, type) == IF check(ps, type) THEN parserAdvance(ps) ELSE ps

\* while (this.match(TokenType.NEWLINE)) {}
RECURSIVE skipNewlines(_)
skipNewlines(ps) == IF check(ps, "NEWLINE") THEN skipNewlines(parserAdvance(ps)) ELSE ps

pythonKeywords == KEYWORDS

validateIdentifier(ps, token) ==
    IF At(token.value, 1) \in Digits
    THEN reportError(ps, token,
                     <<"Identificador invalido: '">> \o token.value \o <<"'">>,
                     <<"Los identificadores no pueden empezar con un numero. Use letras o _">>)
    ELSE IF token.value \in pythonKeywords
    THEN reportError(ps, token,
                     <<"No se puede usar palabra clave como identificador: '">>
                         \o token.value \o <<"'">>,
                     <<"Elija un nombre que no sea una palabra reservada de Python">>)
    ELSE IF ~(At(token.value, 1) \in IdentStart
              /\ Run(token.value, 2, IdentPart) = Len(token.value) - 1)
    THEN reportError(ps, token,
                     <<"Caracteres invalidos en identificador: '">> \o token.value \o <<"'">>,
                     <<"Use solo letras, numeros y _ en los identificadores">>)
    ELSE ps

\* an outcome of a derivation: the parser after it, the node returned
\* (NullNode for null), and whether it left by a throw
Derived(ps, node) == [parser |-> ps, node |-> node, thrown |-> FALSE]
Thrown(ps) == [parser |-> ps, node |-> NullNode, thrown |-> TRUE]

LiteralNodeType ==
    [INTEGER |-> "IntegerLiteral", FLOAT |-> "FloatLiteral", STRING |-> "StringLiteral",
     BOOLEAN |-> "BooleanLiteral", NONE |-> "NoneLiteral"]

LiteralTypes == {"INTEGER", "FLOAT", "STRING", "BOOLEAN", "NONE"}

parsePrimary(ps) ==
    IF check(ps, "IDENTIFIER")
    THEN LET moved == parserAdvance(ps)
             token == previous(moved)
         IN  Derived(validateIdentifier(moved, token),
                     ASTNode("Identifier", token.value, <<>>, token))
    ELSE IF \E type \in LiteralTypes : check(ps, type)
    THEN LET moved == parserAdvance(ps)
         IN  Derived(moved, ASTNode(LiteralNodeType[previous(moved).type],
                                    previous(moved).value, <<>>, previous(moved)))
    ELSE Thrown(error(ps, peek(ps), <<"Se esperaba una expresion valida">>, <<>>))

parseExpression(ps) == parsePrimary(ps)

\* consume(type, message): the token is previous() of the parser returned
consume(ps, type, message) ==
    IF check(ps, type)
    THEN Derived(parserAdvance(ps), NullNode)
    ELSE Thrown(error(ps, peek(ps), message, <<>>))

parseAssignment(ps) ==
    LET c1 == consume(ps, "IDENTIFIER", <<"Se esperaba un identificador">>)
    IN  IF c1.thrown THEN c1
        ELSE LET identifier == previous(c1.parser)
                 c2 == consume(validateIdentifier(c1.parser, identifier),
                               "ASSIGNMENT_OPERATOR",
                               <<"Se esperaba '=' despues del identificador">>)
             IN  IF c2.thrown THEN c2
                 ELSE LET value == parseExpression(c2.parser)
                      IN  IF value.thrown THEN value
                          ELSE Derived(value.parser,
                                       ASTNode("Assignment", identifier.value,
                                               <<value.node>>, identifier))

\* parseStatement that accepts an expression whatever follows it
parseStatementNoTargetCheck(ps) ==
    IF isAtEnd(ps) THEN Derived(ps, NullNode)
    ELSE IF peek(ps).type = "ERROR"
    THEN LET token == peek(ps)
         IN  Derived(parserAdvance(
                         reportError(ps, token,
                             <<"Error lexico: ">> \o
                                 (IF token.error.message # <<>> THEN token.error.message
                                  ELSE <<"Caracter no reconocido">>),
                             IF token.error.suggestion # <<>> THEN token.error.suggestion
                             ELSE <<"Revise el caracter en esta posicion">>)),
                     NullNode)
    ELSE IF check(ps, "IDENTIFIER") /\ checkNext(ps, "ASSIGNMENT_OPERATOR")
    THEN parseAssignment(ps)
    ELSE IF check(ps, "IDENTIFIER") \/ \E type \in LiteralTypes : check(ps, type)
    THEN parseExpression(IF check(ps, "IDENTIFIER")
                         THEN validateIdentifier(ps, peek(ps)) ELSE ps)
    ELSE IF check(ps, "KEYWORD")
    THEN Thrown(error(ps, peek(ps),
                      <<"Palabra clave '">> \o peek(ps).value \o <<"' usada incorrectamente">>,
                      <<"Las palabras clave no pueden usarse como identificadores o en este contexto">>))
    ELSE Thrown(error(ps, peek(ps), <<"Se esperaba una declaracion o expresion valida">>, <<>>))

parseStatement(ps) ==
    IF isAtEnd(ps) THEN Derived(ps, NullNode)
    ELSE IF peek(ps).type = "ERROR"
    THEN LET token == peek(ps)
         IN  Derived(parserAdvance(
                         reportError(ps, token,
                             <<"Error lexico: ">> \o
                                 (IF token.error.message # <<>> THEN token.error.message
                                  ELSE <<"Caracter no reconocido">>),
                             IF token.error.suggestion # <<>> THEN token.error.suggestion
                             ELSE <<"Revise el caracter en esta posicion">>)),
                     NullNode)
    ELSE IF check(ps, "IDENTIFIER") /\ checkNext(ps, "ASSIGNMENT_OPERATOR")
    THEN parseAssignment(ps)
    ELSE IF check(ps, "IDENTIFIER") \/ \E type \in LiteralTypes : check(ps, type)
    THEN LET validated == IF check(ps, "IDENTIFIER")
                          THEN validateIdentifier(ps, peek(ps)) ELSE ps
             expr == parseExpression(validated)
         IN  IF expr.thrown THEN expr
             ELSE IF check(expr.parser, "ASSIGNMENT_OPERATOR")
             THEN Thrown(error(expr.parser, peek(expr.parser),
                     <<"No se puede asignar a un literal">>,
                     <<"La asignacion debe tener un identificador valido a la izquierda del =">>))
             ELSE expr
    ELSE IF check(ps, "KEYWORD")
    THEN Thrown(error(ps, peek(ps),
                      <<"Palabra clave '">> \o peek(ps).value \o <<"' usada incorrectamente">>,
                      <<"Las palabras clave no pueden usarse como identificadores o en este contexto">>))
    ELSE Thrown(error(ps, peek(ps), <<"Se esperaba una declaracion o expresion valida">>, <<>>))

\* the while loop of synchronize
RECURSIVE synchronizeLoop(_)
synchronizeLoop(ps) ==
    IF isAtEnd(ps) THEN ps
    ELSE IF previous(ps).type = "NEWLINE" THEN ps
    ELSE IF peek(ps).type = "ERROR" THEN synchronizeLoop(parserAdvance(ps))
    ELSE IF peek(ps).type = "IDENTIFIER" /\ checkNext(ps, "ASSIGNMENT_OPERATOR") THEN ps
    ELSE IF check(ps, "IDENTIFIER") \/ \E type \in LiteralTypes : check(ps, type) THEN ps
    ELSE synchronizeLoop(parserAdvance(ps))

\* synchronize that does not first consume the token of the failure
synchronizeNoAdvance(ps) == synchronizeLoop(ps)

synchronize(ps) == synchronizeLoop(parserAdvance(ps))

\* an iteration of parse whose catch block does not call synchronize
parseIterationNoRecovery(ps, stmts) ==
    LET skipped == skipNewlines(ps)
    IN  IF isAtEnd(skipped) THEN [parser |-> skipped, statements |-> stmts]
        ELSE LET statement == parseStatement(skipped)
             IN  IF statement.thrown
                 THEN [parser |-> statement.parser, statements |-> stmts]
                 ELSE [parser |-> skipNewlines(statement.parser),
                       statements |-> IF statement.node # NullNode
                                      THEN Append(stmts, statement.node) ELSE stmts]

\* one iteration of the while loop of parse: the try block and its catch
parseIteration(ps, stmts) ==
    LET skipped == skipNewlines(ps)
    IN  IF isAtEnd(skipped) THEN [parser |-> skipped, statements |-> stmts]
        ELSE LET statement == parseStatement(skipped)
             IN  IF statement.thrown
                 THEN [parser |-> synchronize(statement.parser), statements |-> stmts]
                 ELSE [parser |-> skipNewlines(statement.parser),
                       statements |-> IF statement.node # NullNode
                                      THEN Append(stmts, statement.node) ELSE stmts]

\* parse that returns the Program node even when it has no statement
parseResultAlwaysProgram(ps, stmts) ==
    [ast |-> ASTNode("Program", <<>>, stmts, EOFDefault), errors |-> ps.errors]

\* the rest of parse once the loop has ended
parseResult(ps, stmts) ==
    [ast |-> IF Len(stmts) > 0
             THEN ASTNode("Program", <<>>, stmts, EOFDefault) ELSE NullNode,
     errors |-> ps.errors]

(***************************************************************************)
(* Inputs                                                                  *)
(***************************************************************************)
\* every text of at most n characters of C
RECURSIVE TextsUpTo(_, _)
TextsUpTo(C, n) ==
    IF n = 0 THEN {<<>>}
    ELSE LET shorter == TextsUpTo(C, n - 1)
         IN  shorter \cup {Append(t, c) : t \in {u \in shorter : Len(u) = n - 1}, c \in C}

Alphabet == {"x", "1", "=", " ", "\n", "'", "\\", "#"}

\* the line `identifier = literal`
AssignmentLine(identifier, literal) == identifier \o <<" ", "=", " ">> \o literal

\* valid identifiers: none is a reserved word
SampleIdentifiers == { <<"x">>, <<"_", "y", "2">>, <<"i", "n", "d", "e", "x">> }
SampleLiterals == { <<"1">>, <<"2", ".", "5">>, <<"'", "s", "'">>, <<"T", "r", "u", "e">> }
SampleLines == SampleIdentifiers \X SampleLiterals

\* the lines of a program, joined by newlines
RECURSIVE JoinLines(_)
JoinLines(lines) ==
    IF Len(lines) = 0 THEN <<>>
    ELSE IF Len(lines) = 1 THEN AssignmentLine(lines[1][1], lines[1][2])
    ELSE AssignmentLine(lines[1][1], lines[1][2]) \o <<"\n">> \o JoinLines(Tail(lines))

AssignmentPrograms == UNION {[1..n -> SampleLines] : n \in 1..MaxLines}

MissingValue == <<"x", " ", "=", " ", "1", "\n", "y", " ", "=">>
UnclosedString == <<"'", "h", "e", "l", "l", "o">>
LiteralTarget == <<"1", " ", "=", " ", "2">>
CaseTexts ==
    {MissingValue, MissingValue \o <<" ">>, UnclosedString, LiteralTarget,
     <<"1", " ", "=", " ", "x", " ", "=", " ", "3">>}

\* operator characters, and single-quoted strings over the characters of escapes
OperatorAlphabet == {"*", "=", "-", ">", "<"}
StringBodyAlphabet == {"\\", "q", "n", "a", "\""}
QuotedTexts == {<<"'">> \o body \o <<"'">> : body \in TextsUpTo(StringBodyAlphabet, MaxLen - 1)}

SourceTexts ==
    TextsUpTo(Alphabet, MaxLen) \cup {JoinLines(p) : p \in AssignmentPrograms} \cup CaseTexts
        \cup TextsUpTo(OperatorAlphabet, MaxLen) \cup QuotedTexts

(***************************************************************************)
(* State                                                                   *)
(***************************************************************************)
VARIABLES
    pc,          \* where the caller is: "lexer", "tokenize", "tokens", "parse", "done"
    lexer,       \* the Lexer object
    tokens,      \* the local array of tokenize
    returned,    \* the results returned by the tokenize calls made on the lexer
    spans,       \* the advance(steps) calls of the running tokenize call
    parser,      \* the Parser object
    statements,  \* the local array of parse
    result       \* what parse returned

vars == <<pc, lexer, tokens, returned, spans, parser, statements, result>>

NoResult == [ast |-> NullNode, errors |-> <<>>]

\* the controller has built the Lexer for the source text of a request
Init ==
    /\ pc = "lexer"
    /\ lexer \in {NewLexer(text) : text \in SourceTexts}
    /\ tokens = <<>>
    /\ returned = <<>>
    /\ spans = <<>>
    /\ parser = NewParser(<<>>)
    /\ statements = <<>>
    /\ result = NoResult

\* entry of tokenize
tokenizeEnter ==
    /\ lexer' = [lexer EXCEPT !.errors = <<>>]
    /\ tokens' = <<>>
    /\ spans' = <<>>
    /\ pc' = "tokenize"
    /\ UNCHANGED <<returned, parser, statements, result>>

TokenizeCall == pc = "lexer" /\ tokenizeEnter

\* one iteration of the loop of tokenize
TokenizeStep ==
    /\ pc = "tokenize"
    /\ lexer.position < Len(lexer.input)
    /\ LET it == tokenizeIteration(lexer, tokens)
       IN  /\ lexer' = it.lexer
           /\ tokens' = it.tokens
           /\ spans' = spans \o it.advances
    /\ UNCHANGED <<pc, returned, parser, statements, result>>

\* the loop has ended: the EOF token is appended and the result returned
TokenizeReturn ==
    /\ pc = "tokenize"
    /\ ~(lexer.position < Len(lexer.input))
    /\ tokens' = tokenizeResult(lexer, tokens).tokens
    /\ returned' = Append(returned, tokenizeResult(lexer, tokens))
    /\ pc' = "tokens"
    /\ UNCHANGED <<lexer, spans, parser, statements, result>>

\* tokenize (or getTokens) is called again on the same Lexer object
TokenizeAgain ==
    /\ pc = "tokens"
    /\ Len(returned) < MaxScans
    /\ tokenizeEnter

\* the controller builds the Parser on the tokens and calls parse
ParserNew ==
    /\ pc = "tokens"
    /\ parser' = NewParser(returned[Len(returned)].tokens)
    /\ statements' = <<>>
    /\ pc' = "parse"
    /\ UNCHANGED <<lexer, tokens, returned, spans, result>>

\* one iteration of the loop of parse
ParseStep ==
    /\ pc = "parse"
    /\ ~isAtEnd(parser)
    /\ LET it == parseIteration(parser, statements)
       IN  /\ parser' = it.parser
           /\ statements' = it.statements
    /\ UNCHANGED <<pc, lexer, tokens, returned, spans, result>>

\* the loop has ended: parse returns the tree and the diagnostics
ParseReturn ==
    /\ pc = "parse"
    /\ isAtEnd(parser)
    /\ result' = parseResult(parser, statements)
    /\ pc' = "done"
    /\ UNCHANGED <<lexer, tokens, returned, spans, parser, statements>>

\* the pipeline of the controller: one tokenize call, then one parse call
Next ==
    \/ TokenizeCall
    \/ TokenizeStep
    \/ TokenizeReturn
    \/ ParserNew
    \/ ParseStep
    \/ ParseReturn

Spec == Init /\ [][Next]_vars

\* a Lexer object on which tokenize is called more than once
NextRescan ==
    \/ TokenizeCall
    \/ TokenizeStep
    \/ TokenizeReturn
    \/ TokenizeAgain

SpecRescan == Init /\ [][NextRescan]_vars

(***************************************************************************)
(* The Parser on its own: parse on any token sequence                      *)
(***************************************************************************)
LexicalDetail ==
    [message |-> <<"Cadena no cerrada correctamente">>,
     suggestion |-> <<"Asegurate de cerrar la cadena con la misma comilla que usaste para abrirla">>]

\* type, text and lexical detail of the tokens a caller may pass
CoreKinds ==
    { <<"IDENTIFIER", <<"x">>, NoError>>,
      <<"INTEGER", <<"1">>, NoError>>,
      <<"ASSIGNMENT_OPERATOR", <<"=">>, NoError>>,
      <<"ARITHMETIC_OPERATOR", <<"+">>, NoError>>,
      <<"NEWLINE", <<"\n">>, NoError>>,
      <<"ERROR", <<"'">>, LexicalDetail>>,
      <<"EOF", <<"E", "O", "F">>, NoError>> }

TokenKinds ==
    CoreKinds \cup
    { <<"IDENTIFIER", <<"2", "x">>, NoError>>,
      <<"IDENTIFIER", <<"c", "l", "a", "s", "s">>, NoError>>,
      <<"KEYWORD", <<"i", "f">>, NoError>>,
      <<"IDENTIFIER", <<"a", "-", "b">>, NoError>>,
      <<"ASSIGNMENT_OPERATOR", <<"+", "=">>, NoError>>,
      <<"COMMENT", <<"#">>, NoError>>,
      <<"ERROR", <<"$">>, NoError>> }

\* the tokens of one line: the k-th token is at column k
TokensOf(kinds) ==
    [k \in 1..Len(kinds) |->
        [type |-> kinds[k][1], value |-> kinds[k][2], line |-> 1, column |-> k,
         error |-> kinds[k][3]]]

KindInt == <<"INTEGER", <<"1">>, NoError>>
KindTwo == <<"INTEGER", <<"2">>, NoError>>
KindAssign == <<"ASSIGNMENT_OPERATOR", <<"=">>, NoError>>
KindX == <<"IDENTIFIER", <<"x">>, NoError>>
KindEOF == <<"EOF", <<"E", "O", "F">>, NoError>>
KindFor == <<"IDENTIFIER", <<"f", "o", "r">>, NoError>>
KindSpace == <<"UNKNOWN", <<" ">>, NoError>>
KindComment == <<"COMMENT", <<"#">>, NoError>>
KindError == <<"ERROR", <<"'">>, LexicalDetail>>

CaseTokens ==
    { <<KindInt, KindAssign, KindTwo, KindEOF>>,
      <<KindInt, KindAssign, KindX, KindAssign, KindTwo, KindEOF>>,
      <<KindFor, KindAssign, KindInt, KindEOF>>,
      <<KindFor, KindEOF>>,
      <<KindSpace, KindError, KindSpace, KindX, KindComment, KindEOF>>,
      <<KindX, KindSpace, KindAssign, KindSpace, KindInt, KindEOF>> }

\* every sequence of MaxTokens core tokens, every shorter sequence of any tokens
TokenInputs ==
    {TokensOf(kinds) : kinds \in TextsUpTo(CoreKinds, MaxTokens)
                                 \cup TextsUpTo(TokenKinds, MaxTokens - 1)
                                 \cup CaseTokens}

InitParser ==
    /\ pc = "parse"
    /\ lexer = NewLexer(<<>>)
    /\ tokens \in TokenInputs
    /\ returned = <<>>
    /\ spans = <<>>
    /\ parser = NewParser(tokens)
    /\ statements = <<>>
    /\ result = NoResult

NextParser == ParseStep \/ ParseReturn

SpecParser == InitParser /\ [][NextParser]_vars

(***************************************************************************)
(* Properties                                                              *)
(***************************************************************************)
\* the result of the tokenize call of the pipeline
scan == returned[1]

hasAssignment(ast) == \E k \in 1..Len(ast.children) : ast.children[k].type = "Assignment"

\* the tree holds exactly the assignments `identifier = literal` of the lines
AssignmentsOf(ast, lines) ==
    /\ ast.type = "Program"
    /\ Len(ast.children) = Len(lines)
    /\ \A k \in 1..Len(lines) :
          /\ ast.children[k].type = "Assignment"
          /\ ast.children[k].value = lines[k][1]
          /\ Len(ast.children[k].children) = 1
          /\ ast.children[k].children[1].value = lines[k][2]

\* C1: for N >= 1 lines `identifier = literal` over valid identifiers that
\* are not reserved words, tokenize then parse returns a Program with exactly
\* the N Assignment children in source order, no syntactic diagnostic and no
\* lexical error.
C1_AssignmentLinesParsed ==
    pc = "done" =>
        \A lines \in AssignmentPrograms :
            lexer.input = JoinLines(lines) =>
                /\ AssignmentsOf(result.ast, lines)
                /\ result.errors = <<>>
                /\ scan.errors = <<>>

\* C2: for `x = 1`, newline, `y = ` (with or without the space after the
\* operator) parse returns exactly one syntactic diagnostic, the one for the
\* missing expression, and a Program whose only child is the Assignment of
\* `x = 1`.
C2_MissingValueDiagnosed ==
    (pc = "done" /\ lexer.input \in {MissingValue, MissingValue \o <<" ">>}) =>
        /\ Len(result.errors) = 1
        /\ result.errors[1].message = <<"Se esperaba una expresion valida">>
        /\ AssignmentsOf(result.ast, << <<<<"x">>, <<"1">>>> >>)

C2_Witness ==
    /\ pc = "done"
    /\ lexer.input = MissingValue \o <<" ">>
    /\ Len(result.errors) = 1
    /\ Len(statements) = 1

\* C3: for `'hello` tokenize returns exactly one lexical error, whose message
\* says that the string is not closed, and parse derives no statement (the
\* tree is absent).
C3_UnclosedStringReported ==
    (pc = "done" /\ lexer.input = UnclosedString) =>
        /\ Len(scan.errors) = 1
        /\ scan.errors[1].error.message = <<"Cadena no cerrada correctamente">>
        /\ statements = <<>>
        /\ result.ast = NullNode

\* the token at 1-based index k of the parser, as peek sees it
tokenAt(ps, k) == IF k \in 1..Len(ps.tokens) THEN ps.tokens[k] ELSE EOFDefault

\* the parser is at a literal that is immediately followed by an assignment operator
literalTarget(ps) ==
    /\ \E type \in LiteralTypes : check(ps, type)
    /\ checkNext(ps, "ASSIGNMENT_OPERATOR")

CannotAssign(op) ==
    [message |-> <<"No se puede asignar a un literal">>, line |-> op.line,
     column |-> op.column, token |-> op,
     suggestion |-> <<"La asignacion debe tener un identificador valido a la izquierda del =">>]

kindsOf(toks) == [k \in 1..Len(toks) |-> <<toks[k].type, toks[k].value>>]

LiteralTargetKinds ==
    << <<"INTEGER", <<"1">>>>, <<"ASSIGNMENT_OPERATOR", <<"=">>>>,
       <<"INTEGER", <<"2">>>>, <<"EOF", <<"E", "O", "F">>>> >>

\* C4 as stated: whenever the tokens are one line that starts with a literal
\* immediately followed by an assignment operator, parse records exactly one
\* "cannot assign to a literal" diagnostic at that operator and the returned
\* tree contains no Assignment node.
C4_NoAssignmentAfterLiteralTarget ==
    (/\ pc = "done"
     /\ literalTarget([parser EXCEPT !.currentTokenIndex = 0])
     /\ \A k \in 1..Len(parser.tokens) : parser.tokens[k].type # "NEWLINE") =>
        /\ Cardinality({k \in 1..Len(result.errors) :
                            result.errors[k] = CannotAssign(parser.tokens[2])}) = 1
        /\ ~hasAssignment(result.ast)

\* C4 amended: a statement attempt that starts at a literal immediately
\* followed by an assignment operator appends exactly one diagnostic, "cannot
\* assign to a literal" at the operator token, yields no node and leaves the
\* cursor past the operator; for the tokens of `1 = 2` parse returns exactly
\* one diagnostic and a tree without Assignment node.
C4_LiteralTargetRejected ==
    [][/\ (pc = "parse" /\ literalTarget(skipNewlines(parser))) =>
            LET start == skipNewlines(parser)
            IN  /\ parser'.errors =
                       Append(parser.errors,
                              CannotAssign(tokenAt(start, start.currentTokenIndex + 2)))
                /\ statements' = statements
                /\ parser'.currentTokenIndex >= start.currentTokenIndex + 2
       /\ (pc' = "done" /\ kindsOf(parser.tokens) = LiteralTargetKinds) =>
            /\ Len(result'.errors) = 1
            /\ ~hasAssignment(result'.ast)
      ]_vars

C4_Witness ==
    /\ pc = "done"
    /\ kindsOf(parser.tokens) = LiteralTargetKinds
    /\ result.errors = <<CannotAssign(parser.tokens[2])>>
    /\ Len(result.ast.children) = 1

\* index of the first EOF token of the parser, Len + 1 when there is none
RECURSIVE streamEnd(_, _)
streamEnd(toks, k) ==
    IF k > Len(toks) \/ toks[k].type = "EOF" THEN k ELSE streamEnd(toks, k + 1)

\* the diagnostic the three rules ask for, <<>> when the text violates none
expectedDiagnostic(text) ==
    IF At(text, 1) \in Digits
    THEN <<"Identificador invalido: '">> \o text \o <<"'">>
    ELSE IF text \in KEYWORDS
    THEN <<"No se puede usar palabra clave como identificador: '">> \o text \o <<"'">>
    ELSE IF \/ At(text, 1) \notin IdentStart
            \/ \E k \in 1..Len(text) : text[k] \notin IdentPart
    THEN <<"Caracteres invalidos en identificador: '">> \o text \o <<"'">>
    ELSE <<>>

diagnosticsAt(token) == {k \in 1..Len(result.errors) : result.errors[k].token = token}

nodeBuilt(token) ==
    \E k \in 1..Len(statements) :
        \/ statements[k].token = token /\ statements[k].value = token.value
        \/ /\ statements[k].type = "Assignment"
           /\ statements[k].children[1].token = token
           /\ statements[k].children[1].value = token.value

\* the assignment whose target is token k has no expression after its operator
valueMissing(k) ==
    \E e \in 1..Len(result.errors) :
        /\ result.errors[e].message = <<"Se esperaba una expresion valida">>
        /\ result.errors[e].token = tokenAt(parser, k + 2)

\* C5: every IDENTIFIER token that parse uses as an assignment target or as a
\* primary expression gets exactly one diagnostic when its text violates a
\* rule (the first that applies of digit-start, reserved-word, invalid
\* characters) and none when it violates no rule, and its node is still built
\* with the text unchanged.
C5_OneDiagnosticPerIdentifier ==
    pc = "done" =>
        \A k \in 1..(streamEnd(parser.tokens, 1) - 1) :
            parser.tokens[k].type = "IDENTIFIER" =>
                LET token == parser.tokens[k]
                    expected == expectedDiagnostic(token.value)
                IN  /\ IF expected = <<>>
                       THEN diagnosticsAt(token) = {}
                       ELSE /\ Cardinality(diagnosticsAt(token)) = 1
                            /\ \A e \in diagnosticsAt(token) :
                                   result.errors[e].message = expected
                    /\ (nodeBuilt(token) \/ valueMissing(k))

\* the text that an advance call consumed
spanText(span) == SubSeq(lexer.input, span.position + 1, span.position + span.steps)

RECURSIVE joinSpans(_)
joinSpans(sp) == IF sp = <<>> THEN <<>> ELSE spanText(Head(sp)) \o joinSpans(Tail(sp))

\* C6: the spans consumed by the scanner steps of one tokenize call are
\* non-empty, contiguous, start at offset 0 and end at the input length, so
\* their concatenation is the input.
C6_SpanCompleteness ==
    pc = "tokens" =>
        /\ \A k \in 1..Len(spans) :
              /\ spans[k].steps >= 1
              /\ spans[k].position = IF k = 1 THEN 0
                                     ELSE spans[k - 1].position + spans[k - 1].steps
              /\ spans[k].position + spans[k].steps <= Len(lexer.input)
        /\ lexer.position = Len(lexer.input)
        /\ joinSpans(spans) = lexer.input

\* parse makes a statement attempt: a token other than NEWLINE comes before the end
RECURSIVE hasAttempt(_, _)
hasAttempt(toks, k) ==
    IF k > Len(toks) \/ toks[k].type = "EOF" THEN FALSE
    ELSE IF toks[k].type = "NEWLINE" THEN hasAttempt(toks, k + 1)
    ELSE TRUE

\* where a token stands in the tokens of the parser
positionsOf(token) == {j \in 1..Len(parser.tokens) : parser.tokens[j] = token}

\* C7: parse returns a Program node iff at least one statement was derived,
\* its children are the derived statements in the order of their tokens, and
\* when every statement attempt fails the tree is absent and the error list
\* is not empty.
C7_ProgramIffStatements ==
    pc = "done" =>
        /\ (result.ast # NullNode) <=> (Len(statements) > 0)
        /\ result.ast # NullNode =>
              /\ result.ast.type = "Program"
              /\ result.ast.children = statements
              /\ \A k \in 1..Len(statements) : positionsOf(statements[k].token) # {}
              /\ \A k \in 1..(Len(statements) - 1) :
                    \A i \in positionsOf(statements[k].token) :
                        \A j \in positionsOf(statements[k + 1].token) : i < j
        /\ (hasAttempt(parser.tokens, 1) /\ Len(statements) = 0) =>
              /\ result.ast = NullNode
              /\ Len(result.errors) > 0
        /\ result.errors = parser.errors

C7_Witness ==
    /\ pc = "done"
    /\ Len(result.ast.children) >= 2
    /\ Len(result.errors) > 0

\* C8: every iteration of the loop of parse, whether it derives a statement,
\* reports a lexical error at statement start or runs recovery, strictly
\* advances the token cursor, which never passes the end of the tokens; so
\* parse returns after at most as many iterations as there are tokens.
C8_CursorAdvances ==
    [][(pc = "parse" /\ ~isAtEnd(parser)) =>
          /\ pc' = "parse"
          /\ parser'.currentTokenIndex > parser.currentTokenIndex
          /\ parser'.currentTokenIndex <= Len(parser.tokens)]_vars

C8_Witness ==
    /\ pc = "done"
    /\ \A k \in 1..Len(parser.tokens) : parser.tokens[k].type # "EOF"
    /\ parser.currentTokenIndex = Len(parser.tokens)
    /\ Len(parser.errors) >= 2
    /\ Len(statements) >= 1

RECURSIVE stripTrailing(_)
stripTrailing(text) ==
    IF Len(text) > 0 /\ text[Len(text)] \in {" ", "\t"}
    THEN stripTrailing(SubSeq(text, 1, Len(text) - 1))
    ELSE text

sameApartFromEOFColumn(a, b) ==
    /\ a.errors = b.errors
    /\ Len(a.tokens) = Len(b.tokens)
    /\ \A k \in 1..Len(a.tokens) :
          IF k = Len(a.tokens)
          THEN [a.tokens[k] EXCEPT !.column = 0] = [b.tokens[k] EXCEPT !.column = 0]
          ELSE a.tokens[k] = b.tokens[k]

\* C9: a run of spaces and tabs at the end of the input yields no token and
\* no lexical error: tokenize returns what it returns for the text without
\* the run, apart from the column of the EOF token.
C9_TrailingWhitespaceYieldsNothing ==
    pc = "tokens" =>
        sameApartFromEOFColumn(scan, tokenize(NewLexer(stripTrailing(lexer.input))))

\* C10: any two tokenize calls for the same input text return the same
\* tokens and the same lexical errors, whatever an earlier scan left behind.
C10_SameResultEveryCall ==
    \A i, j \in 1..Len(returned) : returned[i] = returned[j]

\* type and text of the tokens of a scan
scanKinds == kindsOf(scan.tokens)

EOFKind == <<"EOF", <<"E", "O", "F">>>>

\* C11: a longer operator wins over its own prefix: `**=` and `*=` are each
\* one compound-assignment token and `->` is one ARROW token, not an
\* arithmetic `-` followed by a comparison `>`.
C11_LongestOperatorWins ==
    pc = "tokens" =>
        /\ lexer.input = <<"*", "*", "=">> =>
              scanKinds = << <<"ASSIGNMENT_OPERATOR", <<"*", "*", "=">>>>, EOFKind >>
        /\ lexer.input = <<"*", "=">> =>
              scanKinds = << <<"ASSIGNMENT_OPERATOR", <<"*", "=">>>>, EOFKind >>
        /\ lexer.input = <<"-", ">">> =>
              scanKinds = << <<"ARROW", <<"-", ">">>>>, EOFKind >>

\* the tokens of a scan that come from a string rule: unrecognized-character
\* errors hold at most one character
stringLexemes ==
    {k \in 1..Len(scan.tokens) :
        \/ scan.tokens[k].type = "STRING"
        \/ scan.tokens[k].type = "ERROR" /\ Len(scan.tokens[k].value) >= 2}

ClaimedEscapes == {"\"", "'", "\\", "n", "t", "r", "b", "f", "v", "0"}

\* reading from index i, where a backslash escapes the character after it:
\* some escaped character is outside the allowed set
RECURSIVE escapeOutsideSet(_, _)
escapeOutsideSet(value, i) ==
    IF i + 1 > Len(value) THEN FALSE
    ELSE IF value[i] = "\\"
         THEN value[i + 1] \notin ClaimedEscapes \/ escapeOutsideSet(value, i + 2)
    ELSE escapeOutsideSet(value, i + 1)

\* C12: a matched string lexeme becomes an ERROR token, recorded in the
\* lexical errors, iff one of its backslash escapes is outside the set
\* {", ', \, n, t, r, b, f, v, 0} or its opening and closing quotes differ;
\* otherwise it is a STRING token.
C12_StringRejectedIffBadEscape ==
    pc = "tokens" =>
        \A k \in stringLexemes :
            LET token == scan.tokens[k]
                rejected == \/ escapeOutsideSet(token.value, 1)
                            \/ token.value[1] # token.value[Len(token.value)]
            IN  /\ token.type = (IF rejected THEN "ERROR" ELSE "STRING")
                /\ rejected <=> \E e \in 1..Len(scan.errors) : scan.errors[e] = token

\* 1-based line and column of the character at 0-based offset p of the input
lineOf(text, p) == 1 + Cardinality({i \in 1..p : text[i] = "\n"})
columnOf(text, p) ==
    LET breaks == {i \in 1..p : text[i] = "\n"}
    IN  1 + p - (IF breaks = {} THEN 0 ELSE CHOOSE i \in breaks : \A j \in breaks : j <= i)

\* the advance calls that consumed a token: the others consumed a space/tab run
tokenSpans == SelectSeq(spans, LAMBDA sp : At(lexer.input, sp.position + 1) \notin {" ", "\t"})

\* C13: every token and every error token carries the line and the column of
\* its first character, and the EOF token the position just after the last
\* character of the input.
C13_PositionsExact ==
    pc = "tokens" =>
        /\ Len(tokenSpans) = Len(scan.tokens) - 1
        /\ \A k \in 1..Len(tokenSpans) :
              /\ scan.tokens[k].line = lineOf(lexer.input, tokenSpans[k].position)
              /\ scan.tokens[k].column = columnOf(lexer.input, tokenSpans[k].position)
        /\ scan.tokens[Len(scan.tokens)].line = lineOf(lexer.input, Len(lexer.input))
        /\ scan.tokens[Len(scan.tokens)].column = columnOf(lexer.input, Len(lexer.input))
        /\ \A e \in 1..Len(scan.errors) :
              \E k \in 1..Len(scan.tokens) : scan.tokens[k] = scan.errors[e]

\* C14: every Assignment node of the returned tree comes from an identifier
\* token immediately followed by the simple assignment operator `=` and then
\* one primary expression; a compound operator such as `+=` after an
\* identifier yields no Assignment node.
C14_AssignmentOnlyForSimpleOperator ==
    pc = "done" =>
        \A k \in 1..Len(result.ast.children) :
            result.ast.children[k].type = "Assignment" =>
                LET node == result.ast.children[k]
                IN  /\ positionsOf(node.token) # {}
                    /\ \A j \in positionsOf(node.token) :
                          /\ parser.tokens[j].type = "IDENTIFIER"
                          /\ node.value = parser.tokens[j].value
                          /\ tokenAt(parser, j + 1).type = "ASSIGNMENT_OPERATOR"
                          /\ tokenAt(parser, j + 1).value = <<"=">>
                          /\ Len(node.children) = 1
                          /\ node.children[1].token = tokenAt(parser, j + 2)
                          /\ node.children[1].type \in
                                {"Identifier", "IntegerLiteral", "FloatLiteral",
                                 "StringLiteral", "BooleanLiteral", "NoneLiteral"}

\* the token types at which the recovery loop stops
RestartTypes == {"IDENTIFIER"} \cup LiteralTypes

\* the statement derivation of the iteration of parse that is about to run
failure == parseStatement(skipNewlines(parser))

\* a restart boundary: end of stream, just after a newline, or at a token
\* that can start a statement
recovered(ps) ==
    \/ isAtEnd(ps)
    \/ previous(ps).type = "NEWLINE"
    \/ peek(ps).type \in RestartTypes

\* C15: when a statement derivation fails hard, the failure is recorded at
\* the current token, recovery consumes that token (unless it is the end
\* of the stream) and then discards tokens up to a restart boundary: it
\* returns at end-of-stream, or just after a newline, or in front of an
\* identifier or literal token; it never stops in front of a lexical-error
\* token except just after a newline, never reads past a newline, discards
\* no identifier or literal token, and adds neither a node nor a diagnostic.
C15_RecoveryStopsAtBoundary ==
    [][(pc = "parse" /\ ~isAtEnd(parser) /\ failure.thrown) =>
          LET from == failure.parser.currentTokenIndex
              to == parser'.currentTokenIndex
              toks == parser.tokens
              reported == failure.parser.errors
          IN  /\ Len(reported) > Len(parser.errors)
              /\ reported[Len(reported)].token = peek(failure.parser)
              /\ parser'.errors = reported
              /\ parser'.tokens = toks
              /\ statements' = statements
              /\ IF isAtEnd(failure.parser) THEN to = from ELSE to >= from + 1
              /\ recovered(parser')
              /\ peek(parser').type = "ERROR" => previous(parser').type = "NEWLINE"
              /\ \A j \in (from + 1)..to : toks[j].type \notin RestartTypes
              /\ \A j \in (from + 2)..to : toks[j - 1].type # "NEWLINE"]_vars

\* an operator token fails, recovery consumes it and the lexical-error token
\* after it and stops in front of the identifier
C15_Witness ==
    /\ pc = "parse"
    /\ Len(parser.tokens) >= 3
    /\ parser.tokens[1].type = "ARITHMETIC_OPERATOR"
    /\ parser.tokens[2].type = "ERROR"
    /\ parser.tokens[3].type = "IDENTIFIER"
    /\ parser.currentTokenIndex = 2
    /\ Len(parser.errors) = 1
    /\ parser.errors[1].token = parser.tokens[1]
    /\ statements = <<>>

\* the tokens the parser keeps: all but the whitespace and comment kinds
kept(toks) == SelectSeq(toks, LAMBDA t : t.type # "UNKNOWN" /\ t.type # "COMMENT")

\* the index of the first token at or after index k that is not a NEWLINE
RECURSIVE statementStart(_, _)
statementStart(toks, k) ==
    IF k <= Len(toks) /\ toks[k].type = "NEWLINE" THEN statementStart(toks, k + 1) ELSE k

\* the diagnostic the parser makes of a lexical-error token
lexicalDiagnostic(token) ==
    [message |-> <<"Error lexico: ">> \o
                     (IF token.error.message # <<>> THEN token.error.message
                      ELSE <<"Caracter no reconocido">>),
     line |-> token.line,
     column |-> token.column,
     token |-> token,
     suggestion |-> IF token.error.suggestion # <<>> THEN token.error.suggestion
                    ELSE <<"Revise el caracter en esta posicion">>]

\* C16: the parser works on the given tokens without the whitespace and
\* comment kinds, lexical-error tokens kept; and a lexical-error token at
\* the start of a statement adds exactly one diagnostic, made of the
\* token's own lexical message and suggestion and located at the token,
\* consumes that token only (then the newlines that end the statement, as
\* after any statement), adds no node and runs no recovery: the token after
\* it on the same line is the start of the next statement.
C16_ErrorTokenReportedOnce ==
    /\ [](pc = "parse" => parser.tokens = kept(tokens))
    /\ [][(pc = "parse" /\ ~isAtEnd(parser)) =>
            LET toks == parser.tokens
                start == statementStart(toks, parser.currentTokenIndex + 1)
            IN  (start <= Len(toks) /\ toks[start].type = "ERROR") =>
                   /\ parser'.errors = Append(parser.errors, lexicalDiagnostic(toks[start]))
                   /\ statements' = statements
                   /\ parser'.tokens = toks
                   /\ parser'.currentTokenIndex + 1 = statementStart(toks, start + 1)]_vars

\* an unclosed-string token between whitespace tokens, an identifier and a
\* comment: one diagnostic with the lexical message, and the identifier
\* after the error token is the only statement
C16_Witness ==
    /\ pc = "done"
    /\ Len(tokens) = 6
    /\ kindsOf(parser.tokens) = << <<"ERROR", <<"'">>>>, <<"IDENTIFIER", <<"x">>>>, EOFKind >>
    /\ Len(result.errors) = 1
    /\ result.errors[1] = lexicalDiagnostic(tokens[2])
    /\ result.errors[1].message = <<"Error lexico: ">> \o LexicalDetail.message
    /\ Len(result.ast.children) = 1
    /\ result.ast.children[1].token = tokens[4]

====
